---- MODULE Spec2Model ----
(***************************************************************************)
(* Model of package keps (src/keps/proposals.go): the Proposal record, the *)
(* Proposals collection (AddProposal, SortBy), Proposal.Filter, the front  *)
(* matter scanner Parser.Parse and the accumulating validator Validate.    *)
(*                                                                         *)
(* Three specifications share the variables:                               *)
(*   Spec          the collection under AddProposal/SortBy/Filter/Validate *)
(*   ParseSpec     one run of Parser.Parse, one loop iteration per step    *)
(*   ValidateSpec  Validate and Filter applied to every Proposal of a      *)
(*                 bounded universe                                        *)
(*                                                                         *)
(* Go strings are TLA+ strings. Where the code orders them (ByTitle.Less)  *)
(* the comparison is computed on their bytes, as Go computes it.           *)
(* A time.Time is the integer number of days since the zero instant.       *)
(***************************************************************************)
EXTENDS Integers, Sequences, FiniteSets, Bags, TLC

VARIABLES
    proposals,  \* the Proposals slice
    added,      \* history: bag of every record handed to AddProposal
    last,       \* history: the last collection call, its arguments and result
    in,         \* Parse: the lines the reader holds
    pos,        \* Parse: lines the scanner has delivered
    count,      \* Parse: local `count`
    metadata,   \* Parse: local `metadata`, one entry per appended line
    scanErr,    \* Parse: what scanner.Err() returns
    yamlErr,    \* Parse: local `err`, what yaml.Unmarshal returned
    pc,         \* Parse: position in the function
    out,        \* Parse: the returned (*Proposal, error)
    p,          \* ValidateSpec: the Proposal under test
    ret         \* ValidateSpec: the last call on p and what it returned

collVars  == <<proposals, added, last>>
parseVars == <<in, pos, count, metadata, scanErr, yamlErr, pc, out>>
pureVars  == <<p, ret>>
vars      == <<proposals, added, last, in, pos, count, metadata, scanErr, yamlErr,
               pc, out, p, ret>>

----------------------------------------------------------------------------
(* Bounds *)

MaxDate == 2
MaxColl == 3
MaxLines == 4

----------------------------------------------------------------------------
(* time.Time *)

ZeroTime == 0

Dates == (0 - 1)..MaxDate

IsZero(t) == t = ZeroTime

After(t, u) == t > u

----------------------------------------------------------------------------
(* type Proposal *)

Proposal(title, authors, sig, reviewers, approvers, created, updated, status, filename) ==
    [ Title             |-> title,
      Authors           |-> authors,
      OwningSIG         |-> sig,
      ParticipatingSIGs |-> <<>>,
      Reviewers         |-> reviewers,
      Approvers         |-> approvers,
      CreationDate      |-> created,
      LastUpdated       |-> updated,
      Status            |-> status,
      SeeAlso           |-> <<>>,
      Filename          |-> filename ]

\* &Proposal{}: every field at its zero value
ZeroProposal == Proposal("", <<>>, "", <<>>, <<>>, ZeroTime, ZeroTime, "", "")

----------------------------------------------------------------------------
(* Validate and fieldValidator *)

validProposalStatus ==
    << "provisional", "implementable", "implemented", "deferred",
       "rejected", "withdrawn", "replaced" >>

RECURSIVE Join(_, _)
Join(elems, sep) ==
    IF Len(elems) = 0 THEN ""
    ELSE IF Len(elems) = 1 THEN elems[1]
    ELSE elems[1] \o sep \o Join(Tail(elems), sep)

\* Each check takes the accumulated list fv and returns it, extended or not.
isNonEmpty(fv, field, value) ==
    IF value = "" THEN Append(fv, field \o " cannot be empty") ELSE fv

\* Faulty variant: the message is put in front of the list (sensitivity of C2).
isNonEmptySlicePrepends(fv, field, value) ==
    IF Len(value) = 0 THEN <<field \o " cannot be empty">> \o fv ELSE fv

isNonEmptySlice(fv, field, value) ==
    IF Len(value) = 0 THEN Append(fv, field \o " cannot be empty") ELSE fv

isNonZeroTime(fv, field, t) ==
    IF IsZero(t) THEN Append(fv, field \o " cannot be empty") ELSE fv

\* Faulty variant: the loop stops one short of the last valid value
\* (sensitivity of C1).
isOneOfSkipsLast(fv, field, value, validValues) ==
    IF \E i \in 1..(Len(validValues) - 1) : value = validValues[i]
    THEN fv
    ELSE Append(fv, "'" \o value \o "' is not a valid " \o field
                    \o ". Valid options are '" \o Join(validValues, "', '") \o "'")

isOneOf(fv, field, value, validValues) ==
    IF \E i \in 1..Len(validValues) : value = validValues[i]
    THEN fv
    ELSE Append(fv, "'" \o value \o "' is not a valid " \o field
                    \o ". Valid options are '" \o Join(validValues, "', '") \o "'")

\* Faulty variant: value2.After(value1) in place of !value1.After(value2), so
\* equal dates pass (sensitivity of C10).
isAfterAllowsEqual(fv, field1, field2, value1, value2) ==
    IF After(value2, value1)
    THEN Append(fv, field1 \o " must be later than " \o field2)
    ELSE fv

isAfter(fv, field1, field2, value1, value2) ==
    IF ~After(value1, value2)
    THEN Append(fv, field1 \o " must be later than " \o field2)
    ELSE fv

Validate(q) ==
    LET f1  == isNonEmpty(<<>>, "title", q.Title)
        f2  == isNonEmptySlice(f1, "authors list", q.Authors)
        f3  == isNonEmpty(f2, "owning-sig", q.OwningSIG)
        f4  == isNonEmptySlice(f3, "reviewers list", q.Reviewers)
        f5  == isNonEmptySlice(f4, "approvers list", q.Approvers)
        f6  == isNonZeroTime(f5, "creation date", q.CreationDate)
        f7  == isNonZeroTime(f6, "last updated date", q.LastUpdated)
        f8  == IF ~IsZero(q.LastUpdated) /\ ~IsZero(q.CreationDate)
               THEN isAfter(f7, "last updated date", "creation date",
                            q.LastUpdated, q.CreationDate)
               ELSE f7
        f9  == isNonEmpty(f8, "status", q.Status)
        f10 == IF q.Status # ""
               THEN isOneOf(f9, "status", q.Status, validProposalStatus)
               ELSE f9
    IN  f10

----------------------------------------------------------------------------
(* Proposal.Filter and Contains *)

\* Faulty variant: only the first element is compared (sensitivity of C8).
ContainsFirstOnly(haystack, needle) ==
    Len(haystack) > 0 /\ haystack[1] = needle

Contains(haystack, needle) ==
    \E i \in 1..Len(haystack) : haystack[i] = needle

Filter(q, key, value) ==
    CASE key = "author" -> Contains(q.Authors, value)
      [] key = "status" -> q.Status = value
      [] OTHER          -> FALSE

----------------------------------------------------------------------------
(* ValidateSpec: Validate and Filter on every Proposal of the universe *)

Titles == {"", "a"}

AuthorLists == { <<>>, <<"@x">>, <<"@xy", "@x">>, <<"@X">> }

PersonLists == { <<>>, <<"@deads2k">> }

SIGs == {"", "sig-api-machinery"}

Range(s) == { s[i] : i \in 1..Len(s) }

Statuses == {"", "foo", "Provisional"} \cup Range(validProposalStatus)

FilterKeys == {"author", "status", "authors", ""}

FilterValues == {"@x", "provisional", "foo", ""}

ProposalUniverse ==
    { Proposal(t, a, s, r, ap, c, u, st, "") :
        t \in Titles, a \in AuthorLists, s \in SIGs, r \in PersonLists,
        ap \in PersonLists, c \in Dates, u \in Dates, st \in Statuses }

NoCall == [op |-> "none", key |-> "", value |-> "", errs |-> <<>>, ok |-> FALSE]

PureInit ==
    /\ p \in ProposalUniverse
    /\ ret = NoCall

CallValidate ==
    /\ ret' = [NoCall EXCEPT !.op = "Validate", !.errs = Validate(p)]
    /\ UNCHANGED p

CallFilter ==
    \E key \in FilterKeys, value \in FilterValues :
        /\ ret' = [NoCall EXCEPT !.op = "Filter", !.key = key, !.value = value,
                                 !.ok = Filter(p, key, value)]
        /\ UNCHANGED p

----------------------------------------------------------------------------
(* type Proposals, ByCreationDate, ByTitle, AddProposal, SortBy *)

\* The bytes of the title strings in use; Go compares strings bytewise.
Bytes(s) ==
    CASE s = ""   -> <<>>
      [] s = "a"  -> <<97>>
      [] s = "ab" -> <<97, 98>>
      [] s = "b"  -> <<98>>

\* Go's s > t on strings: the first differing byte decides, and a proper
\* prefix is the smaller one.
RECURSIVE BytesGreater(_, _)
BytesGreater(x, y) ==
    IF Len(x) = 0 THEN FALSE
    ELSE IF Len(y) = 0 THEN TRUE
    ELSE IF x[1] # y[1] THEN x[1] > y[1]
    ELSE BytesGreater(Tail(x), Tail(y))

StringGreater(s, t) == BytesGreater(Bytes(s), Bytes(t))

\* Faulty variant: ByTitle.Less with < in place of > (sensitivity of C6).
LessTitleAscending(by, a, b) ==
    CASE by = "ByCreationDate" -> After(a.CreationDate, b.CreationDate)
      [] by = "ByTitle"        -> StringGreater(b.Title, a.Title)

\* Less(i, j) of the sort.Interface `by`, on the records at i and j.
Less(by, a, b) ==
    CASE by = "ByCreationDate" -> After(a.CreationDate, b.CreationDate)
      [] by = "ByTitle"        -> StringGreater(a.Title, b.Title)

IsSorted(data, by) ==
    \A i, j \in 1..Len(data) : i < j => ~Less(by, data[j], data[i])

\* sort.Sort(data): data is rearranged with Swap into an order sorted by Less.
\* package sort: "The sort is not guaranteed to be stable", so every sorted
\* rearrangement is a possible result.
sortSort(data, by) ==
    { q \in { [i \in 1..Len(data) |-> data[pi[i]]] :
                pi \in Permutations(1..Len(data)) } : IsSorted(q, by) }

\* Faulty variant: a record already held is not added again (sensitivity of C9).
AddProposalOnce(ps, proposal) ==
    IF \E i \in 1..Len(ps) : ps[i] = proposal THEN ps ELSE Append(ps, proposal)

AddProposal(ps, proposal) == Append(ps, proposal)

\* The set of collections SortBy(field) may leave behind.
SortBy(ps, field) ==
    CASE field \in {"created", "creation", "creationDate"} ->
            sortSort(ps, "ByCreationDate")
      [] field = "title" -> sortSort(ps, "ByTitle")
      [] OTHER -> {ps}

----------------------------------------------------------------------------
(* Spec: one collection, called in any order *)

CollTitles == {"a", "ab"}

CollDates == {1, MaxDate}

Filenames == {"x.md", "y.md"}

\* Six records: ties on Title, ties on CreationDate, and two pairs that
\* differ in Filename alone.
CollRecords ==
    { Proposal(k[1], <<"@x">>, "sig-api-machinery", <<"@deads2k">>, <<"@deads2k">>,
               k[2], MaxDate, IF k[2] = MaxDate THEN "provisional" ELSE "foo", k[3]) :
        k \in { k \in CollTitles \X CollDates \X Filenames :
                  \/ k[3] = "x.md"
                  \/ k[1] = "a" /\ k[2] = 1
                  \/ k[1] = "ab" /\ k[2] = MaxDate } }

SortKeys == {"created", "creation", "creationDate", "title", "status", ""}

NoOp ==
    [ op |-> "none", key |-> "", value |-> "", arg |-> ZeroProposal,
      before |-> <<>>, errs |-> <<>>, ok |-> FALSE ]

CollInit ==
    /\ proposals = <<>>
    /\ added = EmptyBag
    /\ last = NoOp

DoAddProposal ==
    \E r \in CollRecords :
        /\ Len(proposals) < MaxColl
        /\ proposals' = AddProposal(proposals, r)
        /\ added' = added (+) SetToBag({r})
        /\ last' = [NoOp EXCEPT !.op = "AddProposal", !.arg = r,
                                !.before = proposals]

DoSortBy ==
    \E field \in SortKeys :
        /\ proposals' \in SortBy(proposals, field)
        /\ last' = [NoOp EXCEPT !.op = "SortBy", !.key = field,
                                !.before = proposals]
        /\ UNCHANGED added

DoFilter ==
    \E i \in 1..Len(proposals), key \in {"author", "status", "title"},
       value \in {"@x", "foo"} :
        /\ last' = [NoOp EXCEPT !.op = "Filter", !.key = key, !.value = value,
                                !.arg = proposals[i], !.before = proposals,
                                !.ok = Filter(proposals[i], key, value)]
        /\ UNCHANGED <<proposals, added>>

DoValidate ==
    \E i \in 1..Len(proposals) :
        /\ last' = [NoOp EXCEPT !.op = "Validate", !.arg = proposals[i],
                                !.before = proposals,
                                !.errs = Validate(proposals[i])]
        /\ UNCHANGED <<proposals, added>>

----------------------------------------------------------------------------
(* Parser.Parse *)

\* A line of the input is its characters, line terminator included.
LF == "\n"
CR == "\r"

Marker == <<"-", "-", "-">>

\* strings.Contains(line, "---")
ContainsMarker(line) ==
    \E i \in 1..Len(line) : i + 2 <= Len(line) /\ SubSeq(line, i, i + 2) = Marker

\* scanner.Text() for the raw line: bufio.ScanLines drops the trailing "\n"
\* and one "\r" before it.
ScanText(raw) ==
    LET noLF == IF Len(raw) > 0 /\ raw[Len(raw)] = LF
                THEN SubSeq(raw, 1, Len(raw) - 1) ELSE raw
    IN  IF Len(noLF) > 0 /\ noLF[Len(noLF)] = CR
        THEN SubSeq(noLF, 1, Len(noLF) - 1) ELSE noLF

\* line := scanner.Text() + "\n"
LineOf(raw) == ScanText(raw) \o <<LF>>

NoError == "nil"

\* errors.WithStack: nil stays nil
WithStack(err) == IF err = NoError THEN NoError ELSE "stack: " \o err

\* A *Proposal is <<>> (nil) or <<q>>.
NilProposal == <<>>

\* What yaml.Unmarshal(metadata, proposal) may do to a fresh &Proposal{}: the
\* decoder is not part of the package, so any of a few decoded records and
\* either error outcome is possible; the tag yaml:"-" keeps Filename unset.
DecodedProposals ==
    { ZeroProposal,
      Proposal("a", <<"@x">>, "sig-api-machinery", <<"@deads2k">>, <<"@deads2k">>,
               1, MaxDate, "provisional", "") }

Unmarshal(md) ==
    { [proposal |-> q, err |-> e] :
        q \in DecodedProposals, e \in {NoError, "yaml: unmarshal errors"} }

\* Faulty variant: the read failure returns a Proposal all the same
\* (sensitivity of C7).
ReturnProposalOnReadError(err) ==
    [proposal |-> <<ZeroProposal>>, err |-> WithStack(err)]

\* return nil, errors.WithStack(err)
ReturnReadError(err) == [proposal |-> NilProposal, err |-> WithStack(err)]

\* return proposal, errors.WithStack(err)
ReturnDecoded(q, err) == [proposal |-> <<q>>, err |-> WithStack(err)]

----------------------------------------------------------------------------
(* ParseSpec: one call of Parse on every input of up to MaxLines lines *)

RawLines ==
    { <<"-", "-", "-", LF>>, <<"a", "-", "-", "-", LF>>, <<"-", "-", LF>>,
      <<"a", LF>>, <<"a", CR, LF>>, <<"-", "-", "-", CR, LF>> }

Streams == UNION { [1..n -> RawLines] : n \in 0..MaxLines }

NoResult == [proposal |-> NilProposal, err |-> NoError]

ParseInit ==
    /\ in \in Streams
    /\ pos = 0
    /\ count = 0
    /\ metadata = <<>>
    /\ scanErr = NoError
    /\ yamlErr = NoError
    /\ pc = "loop"
    /\ out = NoResult

\* scanner.Scan() delivers the next line and the loop body runs on it.
ScanLine ==
    /\ pc = "loop"
    /\ pos < Len(in)
    /\ pos' = pos + 1
    /\ LET line == LineOf(in[pos + 1])
       IN  IF ContainsMarker(line)
           THEN /\ count' = count + 1
                /\ UNCHANGED <<metadata, pc>>
           ELSE IF count = 2
           THEN /\ pc' = "check"
                /\ UNCHANGED <<count, metadata>>
           ELSE /\ metadata' = Append(metadata, line)
                /\ UNCHANGED <<count, pc>>
    /\ UNCHANGED <<in, scanErr, yamlErr, out>>

\* The reader fails (or a line is too long): the scanner latches the error.
\* Lines it already holds may still be delivered before Scan returns false.
ReadFail ==
    /\ pc = "loop"
    /\ scanErr = NoError
    /\ scanErr' = "read failed"
    /\ UNCHANGED <<in, pos, count, metadata, yamlErr, pc, out>>

\* scanner.Scan() returns false: at the end of the input, or after a failed
\* read once the scanner has run out of the lines it holds.
ScanStop ==
    /\ pc = "loop"
    /\ pos = Len(in) \/ scanErr # NoError
    /\ pc' = "check"
    /\ UNCHANGED <<in, pos, count, metadata, scanErr, yamlErr, out>>

\* if err := scanner.Err(); err != nil { return nil, ... }
CheckScanErr ==
    /\ pc = "check"
    /\ IF scanErr # NoError
       THEN /\ out' = ReturnReadError(scanErr)
            /\ pc' = "done"
       ELSE /\ pc' = "decode"
            /\ UNCHANGED out
    /\ UNCHANGED <<in, pos, count, metadata, scanErr, yamlErr>>

\* proposal := &Proposal{}; err := yaml.Unmarshal(...); return proposal, ...
Decode ==
    /\ pc = "decode"
    /\ \E r \in Unmarshal(metadata) :
        /\ yamlErr' = r.err
        /\ out' = ReturnDecoded(r.proposal, r.err)
    /\ pc' = "done"
    /\ UNCHANGED <<in, pos, count, metadata, scanErr>>

----------------------------------------------------------------------------
(* The specifications *)

CollIdle  == proposals = <<>> /\ added = EmptyBag /\ last = NoOp
ParseIdle ==
    /\ in = <<>> /\ pos = 0 /\ count = 0 /\ metadata = <<>>
    /\ scanErr = NoError /\ yamlErr = NoError /\ pc = "idle" /\ out = NoResult
PureIdle  == p = ZeroProposal /\ ret = NoCall

Init == CollInit /\ ParseIdle /\ PureIdle

Next ==
    \/ DoAddProposal /\ UNCHANGED <<parseVars, pureVars>>
    \/ DoSortBy /\ UNCHANGED <<parseVars, pureVars>>
    \/ DoFilter /\ UNCHANGED <<parseVars, pureVars>>
    \/ DoValidate /\ UNCHANGED <<parseVars, pureVars>>

Spec == Init /\ [][Next]_vars

ParseSpecInit == ParseInit /\ CollIdle /\ PureIdle

ParseNext ==
    \/ ScanLine /\ UNCHANGED <<collVars, pureVars>>
    \/ ReadFail /\ UNCHANGED <<collVars, pureVars>>
    \/ ScanStop /\ UNCHANGED <<collVars, pureVars>>
    \/ CheckScanErr /\ UNCHANGED <<collVars, pureVars>>
    \/ Decode /\ UNCHANGED <<collVars, pureVars>>

ParseSpec == ParseSpecInit /\ [][ParseNext]_vars

ValidateSpecInit == PureInit /\ CollIdle /\ ParseIdle

ValidateNext ==
    \/ CallValidate /\ UNCHANGED <<collVars, parseVars>>
    \/ CallFilter /\ UNCHANGED <<collVars, parseVars>>

ValidateSpec == ValidateSpecInit /\ [][ValidateNext]_vars

----------------------------------------------------------------------------
(* Properties of Validate (ValidateSpec) *)

ValidStatusSet ==
    { "provisional", "implementable", "implemented", "deferred", "rejected",
      "withdrawn", "replaced" }

FullyValid(q) ==
    /\ q.Title # "" /\ q.OwningSIG # "" /\ q.Status # ""
    /\ Len(q.Authors) >= 1 /\ Len(q.Reviewers) >= 1 /\ Len(q.Approvers) >= 1
    /\ q.CreationDate # 0 /\ q.LastUpdated # 0
    /\ q.LastUpdated > q.CreationDate
    /\ q.Status \in ValidStatusSet

\* C1: Validate(p) returns the empty list if and only if p is fully valid:
\* the three strings non-empty, the three lists non-empty, both dates
\* non-zero, LastUpdated strictly after CreationDate, Status one of the seven.
C1_EmptyIffFullyValid ==
    ret.op = "Validate" => ((ret.errs = <<>>) <=> FullyValid(p))

C1_Witness ==
    /\ ret.op = "Validate"
    /\ ret.errs = <<>>
    /\ FullyValid(p)
    /\ p.Status = "replaced"

DateOrderMsg == "last updated date must be later than creation date"

InvalidStatusMsg(status) ==
    "'" \o status \o "' is not a valid status. Valid options are 'provisional', 'implementable', 'implemented', 'deferred', 'rejected', 'withdrawn', 'replaced'"

\* The ten checks in their fixed order: <<the check fails, its message>>.
CheckTable(q) ==
    << <<q.Title = "", "title cannot be empty">>,
       <<q.Authors = <<>>, "authors list cannot be empty">>,
       <<q.OwningSIG = "", "owning-sig cannot be empty">>,
       <<q.Reviewers = <<>>, "reviewers list cannot be empty">>,
       <<q.Approvers = <<>>, "approvers list cannot be empty">>,
       <<q.CreationDate = 0, "creation date cannot be empty">>,
       <<q.LastUpdated = 0, "last updated date cannot be empty">>,
       <<q.CreationDate # 0 /\ q.LastUpdated # 0 /\ q.LastUpdated <= q.CreationDate,
         DateOrderMsg>>,
       <<q.Status = "", "status cannot be empty">>,
       <<q.Status # "" /\ q.Status \notin ValidStatusSet, InvalidStatusMsg(q.Status)>> >>

ExpectedMessages(q) ==
    LET Failed(c) == c[1]
        sel == SelectSeq(CheckTable(q), Failed)
    IN  [i \in 1..Len(sel) |-> sel[i][2]]

\* C2: Validate accumulates: the returned list is exactly the messages of the
\* checks that fail, each once, in the fixed order of the ten checks; an
\* earlier failure neither suppresses nor reorders a later check.
C2_AccumulatesInFixedOrder ==
    ret.op = "Validate" => ret.errs = ExpectedMessages(p)

C2_Witness ==
    /\ ret.op = "Validate"
    /\ p.Title = "" /\ p.Authors = <<>> /\ p.Status = ""
    /\ ret.errs = << "title cannot be empty", "authors list cannot be empty",
                     "status cannot be empty" >>

\* C10: the date-ordering message is returned exactly when both dates are
\* non-zero and LastUpdated is not strictly after CreationDate (equal dates
\* included), never together with a date-emptiness message; the invalid-status
\* message is returned exactly when Status is non-empty and not one of the
\* seven, never together with "status cannot be empty".
C10_ConditionalChecksGated ==
    ret.op = "Validate" =>
        LET Has(m) == \E i \in 1..Len(ret.errs) : ret.errs[i] = m
        IN  /\ Has(DateOrderMsg) <=>
                  (/\ p.CreationDate # 0
                   /\ p.LastUpdated # 0
                   /\ ~(p.LastUpdated > p.CreationDate))
            /\ ~(Has(DateOrderMsg) /\ Has("creation date cannot be empty"))
            /\ ~(Has(DateOrderMsg) /\ Has("last updated date cannot be empty"))
            /\ Has(InvalidStatusMsg(p.Status)) <=>
                  (p.Status # "" /\ p.Status \notin ValidStatusSet)
            /\ ~(Has(InvalidStatusMsg(p.Status)) /\ Has("status cannot be empty"))

C10_Witness ==
    /\ ret.op = "Validate"
    /\ p.CreationDate # 0
    /\ p.LastUpdated = p.CreationDate
    /\ p.Status = "foo"
    /\ \E i \in 1..Len(ret.errs) : ret.errs[i] = DateOrderMsg
    /\ \E i \in 1..Len(ret.errs) : ret.errs[i] = InvalidStatusMsg("foo")

----------------------------------------------------------------------------
(* Properties of Filter (ValidateSpec) *)

\* C8: p.Filter(key, value) is true exactly when key is "author" and value
\* equals some element of p.Authors, or key is "status" and value equals
\* p.Status; any other key gives false.
C8_FilterExactMatch ==
    ret.op = "Filter" =>
        (ret.ok <=>
            \/ ret.key = "author" /\ ret.value \in Range(p.Authors)
            \/ ret.key = "status" /\ ret.value = p.Status)

C8_Witness ==
    /\ ret.op = "Filter"
    /\ ret.key = "author" /\ ret.value = "@x"
    /\ p.Authors = <<"@xy", "@x">>
    /\ ret.ok

----------------------------------------------------------------------------
(* Properties of the collection (Spec) *)

CreationKeys == {"created", "creation", "creationDate"}

SortKeyOf(q, field) == IF field = "title" THEN q.Title ELSE q.CreationDate

\* Records with the same sort key are in the same relative order in a and b.
SameOrderWithinTies(a, b, field) ==
    \A k \in { SortKeyOf(a[i], field) : i \in 1..Len(a) } :
        LET HasKey(q) == SortKeyOf(q, field) = k
        IN  SelectSeq(a, HasKey) = SelectSeq(b, HasKey)

C6_SortByOrders ==
    last.op = "SortBy" =>
        /\ last.key \in CreationKeys =>
              \A i, j \in 1..Len(proposals) :
                  i < j => proposals[i].CreationDate >= proposals[j].CreationDate
        /\ last.key = "title" =>
              \A i, j \in 1..Len(proposals) :
                  i < j => ~BytesGreater(Bytes(proposals[j].Title),
                                         Bytes(proposals[i].Title))
        /\ last.key \notin CreationKeys \cup {"title"} => proposals = last.before

C6_Witness ==
    /\ last.op = "SortBy"
    /\ last.key = "title"
    /\ Len(proposals) = MaxColl
    /\ proposals # last.before
    /\ proposals[1].Title = "ab"
    /\ proposals[MaxColl].Title = "a"

BagOfSeq(s) ==
    [ r \in Range(s) |-> Cardinality({ i \in 1..Len(s) : s[i] = r }) ]

\* C9: the collection always holds exactly the records that were added, with
\* multiplicity; AddProposal places the new record last and leaves the
\* earlier positions as they were; Filter and Validate change nothing.
C9_CollectionIsWhatWasAdded ==
    /\ BagOfSeq(proposals) = added
    /\ last.op = "AddProposal" =>
          /\ Len(proposals) = Len(last.before) + 1
          /\ proposals[Len(proposals)] = last.arg
          /\ SubSeq(proposals, 1, Len(last.before)) = last.before
    /\ last.op = "SortBy" => BagOfSeq(proposals) = BagOfSeq(last.before)
    /\ last.op \in {"Filter", "Validate"} => proposals = last.before

C9_Witness ==
    /\ last.op = "SortBy"
    /\ proposals # last.before
    /\ \E i, j \in 1..Len(proposals) : i # j /\ proposals[i] = proposals[j]

----------------------------------------------------------------------------
(* Properties of Parse (ParseSpec) *)

\* The positions of the input lines that contain the marker.
DelimiterLines(s) == { i \in 1..Len(s) : ContainsMarker(s[i]) }

Min(S) == CHOOSE x \in S : \A y \in S : x <= y

SecondDelimiter(s) == Min(DelimiterLines(s) \ {Min(DelimiterLines(s))})

\* The lines at positions lo..hi that do not contain the marker, each with
\* the "\n" terminator the scanner loop gives it.
PlainLines(s, lo, hi) ==
    LET Plain(l) == ~ContainsMarker(l)
        sel == SelectSeq(SubSeq(s, lo, hi), Plain)
    IN  [i \in 1..Len(sel) |-> ScanText(sel[i]) \o <<"\n">>]

\* C3: for an input with exactly two lines containing the marker, the header
\* text handed to the decoder is exactly the lines strictly between them,
\* wherever the two lines are, also when other lines precede the first.
C3_HeaderIsBetweenDelimiters ==
    (pc = "decode" /\ Cardinality(DelimiterLines(in)) = 2) =>
        metadata = PlainLines(in, Min(DelimiterLines(in)) + 1,
                              SecondDelimiter(in) - 1)

\* C4: no line that comes after the second line containing the marker is
\* ever appended to the header text, whatever follows it.
C4_NothingAfterSecondDelimiter ==
    Cardinality(DelimiterLines(in)) >= 2 =>
        Len(metadata) <= Len(PlainLines(in, 1, SecondDelimiter(in)))

\* C7: a failed read returns a nil Proposal and a non-nil error; a failed
\* decode returns a non-nil Proposal and a non-nil error; otherwise a non-nil
\* Proposal with empty Filename and a nil error.
C7_ParseOutcomes ==
    pc = "done" =>
        /\ scanErr # "nil" => (out.proposal = <<>> /\ out.err # "nil")
        /\ (scanErr = "nil" /\ yamlErr # "nil") =>
              (Len(out.proposal) = 1 /\ out.err # "nil")
        /\ (scanErr = "nil" /\ yamlErr = "nil") =>
              /\ Len(out.proposal) = 1
              /\ out.err = "nil"
              /\ out.proposal[1].Filename = ""

C7_Witness ==
    /\ pc = "done"
    /\ scanErr # "nil"
    /\ metadata # <<>>
    /\ out.proposal = <<>>

====
